---- MODULE Spec2Model ----
(***************************************************************************)
(* ChoreBot: the chore registry, the roster of acknowledgement emojis, the *)
(* store snapshot and the reaction-driven rotation handler of src/main.py  *)
(* and src/data.py, as a state machine.                                    *)
(*                                                                         *)
(* Every command handler runs from its entry to its last write of program  *)
(* state without an await on its accepting path, so it is one action.      *)
(* on_raw_reaction_add awaits twice before it mutates (fetch_message,      *)
(* fetch_user), so it is three actions with the handler's locals kept in   *)
(* rx between them.                                                        *)
(***************************************************************************)
EXTENDS Integers, Sequences, FiniteSets, TLC

VARIABLES
    chores,               \* DATASTORE.chores: list[Chore]
    user_emojis,          \* DATASTORE.user_emojis: dict, in insertion order
    chore_channel_id,     \* DATASTORE.chore_channel_id
    reminder_channel_id,  \* DATASTORE.reminder_channel_id
    file,                 \* what the last save_to_file wrote to data.json
    today,                \* date.today()
    rx,                   \* the on_raw_reaction_add handlers in flight
    saves,                \* save_to_file calls made so far
    ops,                  \* handler runs counted so far (see Writes)
    hour,                 \* datetime.now().hour: 9 before midday, 12 from it
    sched,                \* the schedule_reminders task
    sent,                 \* the channel.send calls send_reminder has made
    call                  \* a Schedule method call: arguments and result

vars == <<chores, user_emojis, chore_channel_id, reminder_channel_id,
          file, today, rx, saves, ops, hour, sched, sent, call>>

\* the variables of the reminder task, of the clock's hour and of method calls
aside == <<hour, sched, sent, call>>

(***************************************************************************)
(* Bounds of the model.                                                    *)
(***************************************************************************)
MaxChores == 2
MaxOps == 6
MaxInFlight == 1
MaxInterval == 15
MaxDays == 2
MaxScanOps == 1

(***************************************************************************)
(* Python's None, for each optional field, and exceptions.                 *)
(***************************************************************************)
None == [none |-> TRUE]

Raised(e) == [raised |-> e]

IsRaised(v) == "raised" \in DOMAIN v

(***************************************************************************)
(* datetime.date and timedelta arithmetic.                                 *)
(***************************************************************************)
is_leap(y) == y % 4 = 0 /\ (y % 100 # 0 \/ y % 400 = 0)

days_in_month(y, m) ==
    IF m = 2 THEN (IF is_leap(y) THEN 29 ELSE 28)
    ELSE IF m \in {4, 6, 9, 11} THEN 30 ELSE 31

days_before_month(y, m) ==
    LET dbm == <<0, 31, 59, 90, 120, 151, 181, 212, 243, 273, 304, 334>>
    IN  dbm[m] + (IF m > 2 /\ is_leap(y) THEN 1 ELSE 0)

\* date(year, month, day): raises ValueError for a day the month does not have
date(y, m, d) ==
    IF y \in 1..9999 /\ m \in 1..12 /\ d >= 1 /\ d <= days_in_month(y, m)
    THEN [year |-> y, month |-> m, day |-> d]
    ELSE Raised("ValueError")

toordinal(dt) ==
    LET y1 == dt.year - 1
    IN  y1 * 365 + (y1 \div 4) - (y1 \div 100) + (y1 \div 400)
        + days_before_month(dt.year, dt.month) + dt.day

fromordinal(ord) ==
    LET n0   == ord - 1
        n400 == n0 \div 146097
        r400 == n0 % 146097
        n100 == r400 \div 36524
        r100 == r400 % 36524
        n4   == r100 \div 1461
        r4   == r100 % 1461
        n1   == r4 \div 365
        n    == r4 % 365
        year == n400 * 400 + 1 + n100 * 100 + n4 * 4 + n1
    IN  IF n1 = 4 \/ n100 = 4
        THEN [year |-> year - 1, month |-> 12, day |-> 31]
        ELSE LET m0   == (n + 50) \div 32
                 p0   == days_before_month(year, m0)
                 month == IF p0 > n THEN m0 - 1 ELSE m0
                 prec == days_before_month(year, month)
             IN  [year |-> year, month |-> month, day |-> n - prec + 1]

\* from_date + timedelta(days=n)
add_days(dt, n) == fromordinal(toordinal(dt) + n)

\* date < date
date_lt(a, b) == toordinal(a) < toordinal(b)

Pad2(n) == IF n < 10 THEN "0" \o ToString(n) ELSE ToString(n)

Pad4(n) ==
    IF n < 10 THEN "000" \o ToString(n)
    ELSE IF n < 100 THEN "00" \o ToString(n)
    ELSE IF n < 1000 THEN "0" \o ToString(n)
    ELSE ToString(n)

\* date.isoformat()
isoformat(dt) == Pad4(dt.year) \o "-" \o Pad2(dt.month) \o "-" \o Pad2(dt.day)

(***************************************************************************)
(* Texts.  A text is the sequence of its whitespace-separated words; the   *)
(* absent argument and the empty string, both falsy, are the empty text.   *)
(* A date text is split further at its separators and ordinal suffixes.    *)
(* Titles are whole strings.                                               *)
(***************************************************************************)
NoText == <<>>

NoneText == <<"None">>

\* str.lower() on the words and titles the model's inputs are made of
lower(w) ==
    CASE w = "Dishes" -> "dishes"
      [] w = "Bins"   -> "bins"
      [] w = "Weekly" -> "weekly"
      [] w = "Every"  -> "every"
      [] w = "Days"   -> "days"
      [] w = "None"   -> "none"
      [] OTHER        -> w

lower_text(t) == [i \in 1..Len(t) |-> lower(t[i])]

\* int(word): a decimal numeral, or ValueError
int(w) ==
    IF \E n \in -99..999 : ToString(n) = w
    THEN [int |-> CHOOSE n \in -99..999 : ToString(n) = w]
    ELSE Raised("ValueError")

\* word.rstrip('s')
rstrip_s(w) ==
    CASE w \in {"days", "dayss"}  -> "day"
      [] w = "months"             -> "month"
      [] w = "years"              -> "year"
      [] w = "weeks"              -> "week"
      [] OTHER                    -> w

(***************************************************************************)
(* Schedule (src/data.py).                                                 *)
(***************************************************************************)
Schedule(ft, n) == [frequency_type |-> ft, interval |-> n]

\* Schedule.from_string
from_string(schedule_str) ==
    LET s == lower_text(schedule_str)
    IN  IF s = <<"daily">> THEN Schedule("DAILY", 1)
        ELSE IF s = <<"weekly">> THEN Schedule("WEEKLY", 1)
        ELSE IF s = <<"twice", "a", "week">> THEN Schedule("DAYS", 3)
        ELSE IF s = <<"every", "other", "day">> THEN Schedule("DAYS", 2)
        ELSE IF s = <<"twice", "a", "month">> THEN Schedule("DAYS", 15)
        ELSE IF s = <<"monthly">> THEN Schedule("MONTHLY", 1)
        ELSE IF s = <<"yearly">> THEN Schedule("YEARLY", 1)
        ELSE IF Len(s) >= 3 /\ s[1] = "every" /\ ~IsRaised(int(s[2]))
        THEN LET interval == int(s[2]).int
                 unit == rstrip_s(s[3])
             IN  IF unit = "day" THEN Schedule("DAYS", interval)
                 ELSE IF unit = "month" THEN Schedule("MONTHLY", interval)
                 ELSE IF unit = "year" THEN Schedule("YEARLY", interval)
                 ELSE Raised("ValueError")
        ELSE Raised("ValueError")

\* calculate_next_date with a week counted as a day
calculate_next_date_week_as_day(self, from_date) ==
    IF self.frequency_type = "DAILY" THEN add_days(from_date, 1)
    ELSE IF self.frequency_type \in {"DAYS", "WEEKLY"}
    THEN add_days(from_date, self.interval)
    ELSE IF self.frequency_type = "MONTHLY"
    THEN LET new_month == from_date.month - 1 + self.interval
         IN  date(from_date.year + (new_month \div 12), (new_month % 12) + 1,
                  from_date.day)
    ELSE IF self.frequency_type = "YEARLY"
    THEN date(from_date.year + self.interval, from_date.month, from_date.day)
    ELSE Raised("ValueError")

\* calculate_next_date with a day the target month lacks moved to its last day
calculate_next_date_clamped(self, from_date) ==
    LET clamp(y, m, d) ==
            date(y, m, IF d > days_in_month(y, m) THEN days_in_month(y, m) ELSE d)
    IN  IF self.frequency_type = "DAILY" THEN add_days(from_date, 1)
        ELSE IF self.frequency_type = "DAYS"
        THEN add_days(from_date, self.interval)
        ELSE IF self.frequency_type = "WEEKLY"
        THEN add_days(from_date, 7 * self.interval)
        ELSE IF self.frequency_type = "MONTHLY"
        THEN LET new_month == from_date.month - 1 + self.interval
             IN  clamp(from_date.year + (new_month \div 12),
                       (new_month % 12) + 1, from_date.day)
        ELSE clamp(from_date.year + self.interval, from_date.month,
                   from_date.day)

\* Schedule.calculate_next_date
calculate_next_date(self, from_date) ==
    IF self.frequency_type = "DAILY" THEN add_days(from_date, 1)
    ELSE IF self.frequency_type = "DAYS" THEN add_days(from_date, self.interval)
    ELSE IF self.frequency_type = "WEEKLY" THEN add_days(from_date, 7 * self.interval)
    ELSE IF self.frequency_type = "MONTHLY"
    THEN LET new_month == from_date.month - 1 + self.interval
         IN  date(from_date.year + (new_month \div 12), (new_month % 12) + 1,
                  from_date.day)
    ELSE IF self.frequency_type = "YEARLY"
    THEN date(from_date.year + self.interval, from_date.month, from_date.day)
    ELSE Raised("ValueError")

\* FrequencyType.value
value(ft) ==
    CASE ft = "DAILY"   -> "daily"
      [] ft = "DAYS"    -> "days"
      [] ft = "WEEKLY"  -> "weekly"
      [] ft = "MONTHLY" -> "months"
      [] ft = "YEARLY"  -> "years"

\* FrequencyType.name.lower(), which to_json's side of the file uses
name_lower(ft) ==
    CASE ft = "DAILY"   -> "daily"
      [] ft = "DAYS"    -> "days"
      [] ft = "WEEKLY"  -> "weekly"
      [] ft = "MONTHLY" -> "monthly"
      [] ft = "YEARLY"  -> "yearly"

\* to_string with the unit taken from the member's name
to_string_by_name(self) ==
    IF self.interval = 1 /\ self.frequency_type \in {"DAILY", "WEEKLY"}
    THEN <<name_lower(self.frequency_type)>>
    ELSE <<"every", ToString(self.interval), name_lower(self.frequency_type)>>

\* Schedule.to_string
to_string(self) ==
    IF self.frequency_type = "DAILY" /\ self.interval = 1 THEN <<"daily">>
    ELSE IF self.frequency_type = "WEEKLY" /\ self.interval = 1
    THEN <<"weekly">>
    ELSE IF self.frequency_type = "DAYS" /\ self.interval = 2
    THEN <<"every", "other", "day">>
    ELSE IF self.frequency_type = "DAYS" /\ self.interval = 3
    THEN <<"twice", "a", "week">>
    ELSE IF self.frequency_type = "DAYS" /\ self.interval = 15
    THEN <<"twice", "a", "month">>
    ELSE IF self.frequency_type = "MONTHLY" /\ self.interval = 1
    THEN <<"monthly">>
    ELSE IF self.frequency_type = "YEARLY" /\ self.interval = 1
    THEN <<"yearly">>
    ELSE <<"every", ToString(self.interval), value(self.frequency_type)>>

(***************************************************************************)
(* parse_date (src/main.py): the first of the sixteen formats that matches.*)
(***************************************************************************)
formats ==
    << <<"%d", "/", "%m", "/", "%Y">>,
       <<"%d", "/", "%m", "/", "%y">>,
       <<"%d", "-", "%m", "-", "%Y">>,
       <<"%d", "-", "%m", "-", "%y">>,
       <<"%d", "%b", "%Y">>,
       <<"%d", "%B", "%Y">>,
       <<"%d", "%b", "%y">>,
       <<"%d", "%B", "%y">>,
       <<"%d", "th", "%b", "%Y">>,
       <<"%d", "th", "%B", "%Y">>,
       <<"%d", "nd", "%b", "%Y">>,
       <<"%d", "nd", "%B", "%Y">>,
       <<"%d", "rd", "%b", "%Y">>,
       <<"%d", "rd", "%B", "%Y">>,
       <<"%d", "st", "%b", "%Y">>,
       <<"%d", "st", "%B", "%Y">> >>

month_abbr ==
    <<"Jan", "Feb", "Mar", "Apr", "May", "Jun",
      "Jul", "Aug", "Sep", "Oct", "Nov", "Dec">>

month_name ==
    <<"January", "February", "March", "April", "May", "June",
      "July", "August", "September", "October", "November", "December">>

\* the values a directive can read from a word (none when it does not match)
directive_values(d, w) ==
    CASE d = "%d" -> {n \in 1..31 : w \in {ToString(n), Pad2(n)}}
      [] d = "%m" -> {n \in 1..12 : w \in {ToString(n), Pad2(n)}}
      [] d = "%Y" -> {n \in 1..9999 : w = Pad4(n)}
      [] d = "%y" -> {(IF n < 69 THEN 2000 + n ELSE 1900 + n) :
                         n \in {k \in 0..99 : w = Pad2(k)}}
      [] d = "%b" -> {n \in 1..12 : w = month_abbr[n]}
      [] d = "%B" -> {n \in 1..12 : w = month_name[n]}
      [] OTHER    -> IF w = d THEN {0} ELSE {}

\* datetime.strptime(date_str, fmt).date()
strptime(date_str, fmt) ==
    IF Len(date_str) # Len(fmt)
       \/ \E i \in 1..Len(fmt) : directive_values(fmt[i], date_str[i]) = {}
    THEN Raised("ValueError")
    ELSE LET field(ds) ==
                 LET i == CHOOSE k \in 1..Len(fmt) : fmt[k] \in ds
                 IN  CHOOSE n \in directive_values(fmt[i], date_str[i]) : TRUE
         IN  date(field({"%Y", "%y"}), field({"%m", "%b", "%B"}), field({"%d"}))

RECURSIVE parse_from(_, _)
parse_from(date_str, k) ==
    IF k > Len(formats) THEN Raised("ValueError")
    ELSE IF ~IsRaised(strptime(date_str, formats[k]))
    THEN strptime(date_str, formats[k])
    ELSE parse_from(date_str, k + 1)

parse_date(date_str) == parse_from(date_str, 1)

(***************************************************************************)
(* Inputs of the handlers.                                                 *)
(***************************************************************************)
Channel(n) == [id |-> n]

User(uid) == [id |-> uid]

\* emoji.is_emoji
is_emoji(e) == e \in {"green", "blue"}

weekly == <<"weekly">>

monthly == <<"monthly">>

fortnightly == <<"fortnightly">>

Jan06 == <<"06", "/", "01", "/", "2025">>

Jan31 == <<"31", "/", "01", "/", "2025">>

Jan04 == <<"04", "/", "01", "/", "2025">>

tomorrow == <<"tomorrow">>

ScheduleTexts == {NoText, weekly, monthly, fortnightly}

DateTexts == {NoText, Jan06, Jan31, Jan04, tomorrow}

\* /set_emoji: user, emoji
SetEmojiInputs ==
    {<<"A", "green">>, <<"B", "blue">>, <<"C", "blue">>, <<"A", "abc">>,
     <<"B", "">>}

\* /add_chore: channel, title, assignee, start_date, schedule
AddInputs ==
    {<<Channel(1), "Dishes", "A", Jan06, weekly>>,
     <<Channel(2), "Dishes", "A", Jan06, weekly>>,
     <<Channel(1), "dishes", "B", NoText, NoText>>,
     <<Channel(1), "Bins", "B", Jan31, monthly>>,
     <<Channel(1), "Bins", "A", NoText, weekly>>,
     <<Channel(1), "Bins", "C", Jan04, NoText>>,
     <<Channel(1), "Bins", "A", tomorrow, weekly>>,
     <<Channel(1), "Bins", "A", Jan06, fortnightly>>}

\* /edit_chore: new_title, new_due_date, new_assignee, new_schedule
EditInputs ==
    {<<"dishes", NoText, None, NoText>>,
     <<"", NoneText, None, NoText>>,
     <<"", NoneText, None, weekly>>,
     <<"", Jan06, None, NoText>>,
     <<"", Jan04, None, NoText>>,
     <<"dishes", tomorrow, None, NoText>>,
     <<"", NoText, User("B"), NoText>>,
     <<"", NoText, User("C"), fortnightly>>,
     <<"", NoText, None, weekly>>,
     <<"", NoText, None, NoneText>>}

\* the titles the commands name a chore by
TitleInputs == {"dishes", "Bins"}

Users == {"A", "B", "C"}

\* reactions: channel, user, emoji, first line of the message less its
\* "**Chore:** " prefix
ReactionInputs ==
    {<<Channel(1), "A", "green", "Dishes">>,
     <<Channel(1), "B", "blue", "Dishes">>,
     <<Channel(1), "C", "blue", "Dishes">>,
     <<Channel(1), "A", "green", "Bins">>,
     <<Channel(1), "B", "blue", "Bins">>,
     <<Channel(1), "A", "blue", "Dishes">>,
     <<Channel(2), "A", "green", "Dishes">>}

StartDay == [year |-> 2025, month |-> 1, day |-> 5]

\* the day the bot starts on when the scans are followed
ScanStartDay == [year |-> 2025, month |-> 1, day |-> 4]

\* the handlers' calls of parse_date and Schedule.from_string on their text
\* arguments, computed once for each text
parsed_date == [t \in DateTexts |-> parse_date(t)]

parsed_schedule == [t \in ScheduleTexts |-> from_string(t)]

(***************************************************************************)
(* Chore, Datastore (src/data.py).                                         *)
(***************************************************************************)
Chore(title, schedule, assignee, due_date) ==
    [title |-> title, schedule |-> schedule, assignee |-> assignee,
     due_date |-> due_date]

\* Chore.to_json
to_json(c) ==
    [title    |-> c.title,
     schedule |-> IF c.schedule # None
                  THEN [frequency_type |-> c.schedule.frequency_type,
                        interval |-> c.schedule.interval]
                  ELSE None,
     assignee |-> IF c.assignee # None THEN [str |-> c.assignee.id] ELSE None,
     due_date |-> IF c.due_date # None THEN [str |-> isoformat(c.due_date)]
                  ELSE None]

\* the document Datastore.save_to_file writes
Snapshot(cs, cc, rc, ue) ==
    [chores |-> [i \in 1..Len(cs) |-> to_json(cs[i])],
     chore_channel_id |-> cc,
     reminder_channel_id |-> rc,
     user_emojis |-> ue]

\* key in user_emojis
has_emoji(uid, ue) == \E i \in 1..Len(ue) : ue[i].uid = uid

\* user_emojis[key]
emoji_of(uid, ue) == ue[CHOOSE i \in 1..Len(ue) : ue[i].uid = uid].emoji

\* user_emojis[key] = emoji: a new key goes last, a known key keeps its place
set_item(ue, uid, emoji) ==
    IF has_emoji(uid, ue)
    THEN [i \in 1..Len(ue) |->
             IF ue[i].uid = uid THEN [uid |-> uid, emoji |-> emoji] ELSE ue[i]]
    ELSE Append(ue, [uid |-> uid, emoji |-> emoji])

\* find_chore_by_title, as the index of the chore found (0: None)
find_chore_by_title(cs, title) ==
    IF \E i \in 1..Len(cs) : lower(cs[i].title) = lower(title)
    THEN CHOOSE i \in 1..Len(cs) :
             /\ lower(cs[i].title) = lower(title)
             /\ \A j \in 1..(i - 1) : lower(cs[j].title) # lower(title)
    ELSE 0

\* is_chore_scheduled
is_chore_scheduled(c) == c.schedule # None /\ c.due_date # None

\* chores.pop(): the last chore goes, whichever one was asked for
remove_last(cs, i) == SubSeq(cs, 1, Len(cs) - 1)

\* chores.remove of the chore at index i
remove_at(cs, i) == [j \in 1..(Len(cs) - 1) |-> IF j < i THEN cs[j] ELSE cs[j + 1]]

\* a reaction handler that is not running: it has not started, or it has
\* returned, or (pc "raised") an exception has left it
Ended(pc, exc) ==
    [pc |-> pc, exc |-> exc, user_id |-> "", emoji |-> "", title |-> "",
     chore |-> None, next_assignee_id |-> None]

IdleRx == Ended("idle", "")

(***************************************************************************)
(* The start of schedule_reminders: the first pass of its loop, up to the  *)
(* sleep.                                                                  *)
(***************************************************************************)
\* a datetime, to the hour
datetime(d, h) == [date |-> d, hour |-> h]

\* datetime.combine(now.date(), datetime.min.time()) + timedelta(days=1, hours=12)
next_midday(now) == datetime(add_days(now.date, 1), 12)

\* the task suspended in asyncio.sleep until the instant given
Sleeping(until) ==
    [pc |-> "sleep", until |-> until, today |-> None, it |-> 0, chore |-> None,
     reminder_date |-> None, type |-> "", exc |-> ""]

\* the task back at the sleep after a scan: today keeps the scan's date
SleepingAgain(until) == [Sleeping(until) EXCEPT !.today = sched.today]

\* no Schedule method is being called
NoCall == [fn |-> "", args |-> None, result |-> None]

\* the bot started on day d at hour h, with data.json holding the given
\* chores, channels and emojis
Boot(cs, cc, rc, ue, d, h) ==
    /\ chores = cs
    /\ user_emojis = ue
    /\ chore_channel_id = cc
    /\ reminder_channel_id = rc
    /\ file = Snapshot(cs, cc, rc, ue)
    /\ today = d
    /\ rx = [i \in 1..MaxInFlight |-> IdleRx]
    /\ saves = 0
    /\ ops = 0
    /\ hour = h
    /\ sched = Sleeping(next_midday(datetime(d, h)))
    /\ sent = <<>>

(***************************************************************************)
(* Init: data.json holds no chores, no emojis and no channels.             *)
(***************************************************************************)
Init ==
    /\ Boot(<<>>, None, None, <<>>, StartDay, 9)
    /\ call = NoCall

\* a command that answers without touching the datastore
Answer == UNCHANGED vars

\* a handler run that is counted: a command that writes to the datastore, a
\* reaction that passes the check of user and emoji and so heads for a write
Writes ==
    /\ ops < MaxOps
    /\ ops' = ops + 1

\* Datastore.save_to_file, once the step's updates are made
save_to_file ==
    /\ saves' = saves + 1
    /\ file' = Snapshot(chores', chore_channel_id', reminder_channel_id',
                        user_emojis')

(***************************************************************************)
(* Command handlers (src/main.py).                                         *)
(***************************************************************************)
setup_channel(channel_id) ==
    /\ /\ chore_channel_id' = channel_id
       /\ UNCHANGED <<chores, user_emojis, reminder_channel_id, today, rx>>
       /\ Writes
       /\ save_to_file
    /\ UNCHANGED aside

set_emoji(user, emoji) ==
    /\ IF emoji = "" \/ ~is_emoji(emoji)
       THEN Answer
       ELSE /\ user_emojis' = set_item(user_emojis, user, emoji)
            /\ UNCHANGED <<chores, chore_channel_id, reminder_channel_id, today,
                           rx>>
            /\ Writes
            /\ save_to_file
    /\ UNCHANGED aside

\* add_chore's checks without the check for a chore of the same title
add_chore_result_no_title_check(channel_id, title, assignee, start_date, schedule) ==
    IF chore_channel_id = Channel(0) THEN "no_channel"
    ELSE IF chore_channel_id # channel_id THEN "wrong_channel"
    ELSE IF ~has_emoji(assignee, user_emojis) THEN "no_emoji"
    ELSE IF schedule # NoText /\ IsRaised(parsed_schedule[schedule])
    THEN "bad_schedule"
    ELSE IF start_date # NoText /\ IsRaised(parsed_date[start_date])
    THEN "bad_date"
    ELSE IF start_date # NoText /\ date_lt(parsed_date[start_date], today)
    THEN "past_date"
    ELSE "ok"

\* what add_chore answers, in the order of its checks
\* add_chore_result without the check that the assignee has an emoji
add_chore_result_no_emoji_check(channel_id, title, assignee, start_date, schedule) ==
    IF chore_channel_id = Channel(0) THEN "no_channel"
    ELSE IF chore_channel_id # channel_id THEN "wrong_channel"
    ELSE IF find_chore_by_title(chores, title) # 0 THEN "duplicate"
    ELSE IF schedule # NoText /\ IsRaised(parsed_schedule[schedule])
    THEN "bad_schedule"
    ELSE IF start_date # NoText /\ IsRaised(parsed_date[start_date])
    THEN "bad_date"
    ELSE IF start_date # NoText /\ date_lt(parsed_date[start_date], today)
    THEN "past_date"
    ELSE "ok"

add_chore_result(channel_id, title, assignee, start_date, schedule) ==
    IF chore_channel_id = Channel(0) THEN "no_channel"
    ELSE IF chore_channel_id # channel_id THEN "wrong_channel"
    ELSE IF find_chore_by_title(chores, title) # 0 THEN "duplicate"
    ELSE IF ~has_emoji(assignee, user_emojis) THEN "no_emoji"
    ELSE IF schedule # NoText /\ IsRaised(parsed_schedule[schedule])
    THEN "bad_schedule"
    ELSE IF start_date # NoText /\ IsRaised(parsed_date[start_date])
    THEN "bad_date"
    ELSE IF start_date # NoText /\ date_lt(parsed_date[start_date], today)
    THEN "past_date"
    ELSE "ok"

add_chore(channel_id, title, assignee, start_date, schedule) ==
    /\ LET res == add_chore_result(channel_id, title, assignee, start_date, schedule)
           chore == Chore(title,
                          IF schedule # NoText THEN parsed_schedule[schedule]
                          ELSE None,
                          User(assignee),
                          IF start_date # NoText THEN parsed_date[start_date]
                          ELSE None)
       IN  IF res # "ok"
           THEN Answer
           ELSE /\ Len(chores) < MaxChores
                /\ chores' = Append(chores, chore)
                /\ UNCHANGED <<user_emojis, chore_channel_id, reminder_channel_id,
                               today, rx>>
                /\ Writes
                /\ save_to_file
    /\ UNCHANGED aside

\* edit_chore's updates of the chore found, in the order the handler makes
\* them: the chore as the handler leaves it, and how the handler ends
edit_chore_run(chore, new_title, new_due_date, new_assignee, new_schedule) ==
    LET c1 == IF new_title # "" THEN [chore EXCEPT !.title = new_title] ELSE chore
        due == IF new_due_date \notin {NoText, NoneText}
               THEN parsed_date[new_due_date] ELSE None
        c2 == IF new_due_date = NoneText
              THEN [c1 EXCEPT !.due_date = None, !.schedule = None]
              ELSE IF new_due_date # NoText /\ ~IsRaised(due)
              THEN [c1 EXCEPT !.due_date = due]
              ELSE c1
        c3 == IF new_assignee # None THEN [c2 EXCEPT !.assignee = new_assignee]
              ELSE c2
        sch == IF new_schedule \notin {NoText, NoneText}
               THEN parsed_schedule[new_schedule] ELSE None
        c4 == IF new_schedule = NoneText THEN [c3 EXCEPT !.schedule = None]
              ELSE IF new_schedule # NoText /\ ~IsRaised(sch)
              THEN [c3 EXCEPT !.schedule = sch]
              ELSE c3
    IN  IF new_assignee # None /\ ~has_emoji(new_assignee.id, user_emojis)
        THEN [chore |-> chore, res |-> "no_emoji"]
        ELSE IF new_due_date \notin {NoText, NoneText} /\ IsRaised(due)
        THEN [chore |-> c1, res |-> "bad_date"]
        ELSE IF new_due_date \notin {NoText, NoneText} /\ date_lt(due, today)
        THEN [chore |-> c2, res |-> "past_date"]
        ELSE IF new_schedule \notin {NoText, NoneText} /\ IsRaised(sch)
        THEN [chore |-> c3, res |-> "bad_schedule"]
        ELSE [chore |-> c4, res |-> "ok"]

edit_chore(title, new_title, new_due_date, new_assignee, new_schedule) ==
    /\ LET i == find_chore_by_title(chores, title)
           run == edit_chore_run(chores[i], new_title, new_due_date, new_assignee,
                                 new_schedule)
       IN  IF i = 0
           THEN Answer
           ELSE /\ chores' = [chores EXCEPT ![i] = run.chore]
                /\ UNCHANGED <<user_emojis, chore_channel_id, reminder_channel_id,
                               today, rx>>
                /\ Writes
                /\ IF run.res = "ok"
                   THEN save_to_file
                   ELSE UNCHANGED <<file, saves>>
    /\ UNCHANGED aside

\* the chore references of the handlers in flight after chores.remove of the
\* chore at index i: the removed chore lives on, detached, in the handlers
\* that hold it
after_remove(i) ==
    LET used == {rx[k].chore.det : k \in {j \in 1..MaxInFlight :
                                            "det" \in DOMAIN rx[j].chore}}
        g == CHOOSE n \in 1..(MaxInFlight + 1) :
                 n \notin used /\ \A m \in 1..(n - 1) : m \in used
    IN  [k \in 1..MaxInFlight |->
            IF "idx" \notin DOMAIN rx[k].chore THEN rx[k]
            ELSE IF rx[k].chore.idx = i
            THEN [rx[k] EXCEPT !.chore = [det |-> g, obj |-> chores[i]]]
            ELSE IF rx[k].chore.idx > i
            THEN [rx[k] EXCEPT !.chore = [idx |-> rx[k].chore.idx - 1]]
            ELSE rx[k]]

\* the reminder task's loop variable after chores.remove of the chore at
\* index i: the list iterator keeps its count, the chore it handed out stays
\* the same object
sched_after_remove(i) ==
    IF i = 0 \/ "idx" \notin DOMAIN sched.chore THEN sched
    ELSE IF sched.chore.idx = i
    THEN [sched EXCEPT !.chore = [obj |-> chores[i]]]
    ELSE IF sched.chore.idx > i
    THEN [sched EXCEPT !.chore = [idx |-> sched.chore.idx - 1]]
    ELSE sched

delete_chore(title) ==
    /\ LET i == find_chore_by_title(chores, title)
       IN  IF i = 0
           THEN Answer
           ELSE /\ chores' = remove_at(chores, i)
                /\ rx' = after_remove(i)
                /\ UNCHANGED <<user_emojis, chore_channel_id, reminder_channel_id,
                               today>>
                /\ Writes
                /\ save_to_file
    /\ sched' = sched_after_remove(find_chore_by_title(chores, title))
    /\ UNCHANGED <<hour, sent, call>>

assign_chore(title, user) ==
    /\ LET i == find_chore_by_title(chores, title)
       IN  IF ~has_emoji(user, user_emojis) \/ i = 0
           THEN Answer
           ELSE /\ chores' = [chores EXCEPT ![i].assignee = User(user)]
                /\ UNCHANGED <<user_emojis, chore_channel_id, reminder_channel_id,
                               today, rx>>
                /\ Writes
                /\ save_to_file
    /\ UNCHANGED aside

(***************************************************************************)
(* on_raw_reaction_add (src/main.py), cut at its awaits.                   *)
(***************************************************************************)
\* the last other key of user_emojis, not the first
next_other_last(ue, user_id) ==
    IF \E k \in 1..Len(ue) : ue[k].uid # user_id
    THEN User(ue[CHOOSE k \in 1..Len(ue) :
                     /\ ue[k].uid # user_id
                     /\ \A j \in (k + 1)..Len(ue) : ue[j].uid = user_id].uid)
    ELSE None

\* next((uid for uid in user_emojis if uid != user_id), None)
next_other(ue, user_id) ==
    IF \E k \in 1..Len(ue) : ue[k].uid # user_id
    THEN User(ue[CHOOSE k \in 1..Len(ue) :
                     /\ ue[k].uid # user_id
                     /\ \A j \in 1..(k - 1) : ue[j].uid = user_id].uid)
    ELSE None

\* the reaction passes the handler's check of user and emoji
valid_reaction(ue, user_id, emoji) ==
    has_emoji(user_id, ue) /\ emoji_of(user_id, ue) = emoji

\* the chore a handler in flight holds: a member of the list or a removed one
held(ref) == IF "idx" \in DOMAIN ref THEN chores[ref.idx] ELSE ref.obj

Running(pc) == pc \in {"fetch_message", "fetch_user"}

\* ReactStart without the check of user and emoji
ReactStart_unchecked(i, channel_id, user_id, emoji, title) ==
    /\ /\ ~Running(rx[i].pc)
       /\ \A j \in 1..(i - 1) : Running(rx[j].pc)
       /\ rx' = [rx EXCEPT ![i] =
                    IF channel_id # chore_channel_id
                    THEN Ended("not_chore_channel", "")
                    ELSE [IdleRx EXCEPT !.pc = "fetch_message",
                                        !.user_id = user_id,
                                        !.emoji = emoji,
                                        !.title = title]]
       /\ IF channel_id = chore_channel_id THEN Writes ELSE UNCHANGED ops
       /\ UNCHANGED <<chores, user_emojis, chore_channel_id, reminder_channel_id,
                      file, today, saves>>
    /\ UNCHANGED aside

\* from the event to the await of channel.fetch_message; title is the first
\* line of the message reacted to, less its "**Chore:** " prefix
ReactStart(i, channel_id, user_id, emoji, title) ==
    /\ /\ ~Running(rx[i].pc)
       /\ \A j \in 1..(i - 1) : Running(rx[j].pc)
       /\ rx' = [rx EXCEPT ![i] =
                    IF channel_id # chore_channel_id
                    THEN Ended("not_chore_channel", "")
                    ELSE IF ~valid_reaction(user_emojis, user_id, emoji)
                    THEN Ended("invalid_reaction", "")
                    ELSE [IdleRx EXCEPT !.pc = "fetch_message",
                                        !.user_id = user_id,
                                        !.emoji = emoji,
                                        !.title = title]]
       /\ IF channel_id = chore_channel_id
             /\ valid_reaction(user_emojis, user_id, emoji)
          THEN Writes
          ELSE UNCHANGED ops
       /\ UNCHANGED <<chores, user_emojis, chore_channel_id, reminder_channel_id,
                      file, today, saves>>
    /\ UNCHANGED aside

\* ReactResolve returning, not raising, when no chore has the title
ReactResolve_silent(i) ==
    /\ LET idx == find_chore_by_title(chores, rx[i].title)
       IN  /\ rx[i].pc = "fetch_message"
           /\ rx' = [rx EXCEPT ![i] =
                        IF idx = 0
                        THEN Ended("done", "")
                        ELSE [rx[i] EXCEPT !.pc = "fetch_user",
                                           !.chore = [idx |-> idx],
                                           !.next_assignee_id =
                                               next_other(user_emojis, rx[i].user_id)]]
           /\ UNCHANGED <<chores, user_emojis, chore_channel_id,
                          reminder_channel_id, file, today, saves, ops>>
    /\ UNCHANGED aside

\* from the message fetched to the await of client.fetch_user
ReactResolve(i) ==
    /\ LET idx == find_chore_by_title(chores, rx[i].title)
       IN  /\ rx[i].pc = "fetch_message"
           /\ rx' = [rx EXCEPT ![i] =
                        IF idx = 0
                        THEN Ended("raised", "ValueError: chore not found")
                        ELSE [rx[i] EXCEPT !.pc = "fetch_user",
                                           !.chore = [idx |-> idx],
                                           !.next_assignee_id =
                                               next_other(user_emojis, rx[i].user_id)]]
           /\ UNCHANGED <<chores, user_emojis, chore_channel_id,
                          reminder_channel_id, file, today, saves, ops>>
    /\ UNCHANGED aside

\* chore.assignee = next_assignee
assigned(chore, next_assignee) == [chore EXCEPT !.assignee = next_assignee]

\* the due date moved on a week whenever there is one, schedule or not
advanced_unconditionally(chore) ==
    IF chore.due_date # None
    THEN [chore EXCEPT !.due_date = add_days(chore.due_date, 7)]
    ELSE chore

\* if is_chore_scheduled(chore): chore.due_date = the next date, when
\* calculate_next_date returns one
advanced(chore) ==
    LET nxt == calculate_next_date(chore.schedule, chore.due_date)
    IN  IF is_chore_scheduled(chore) /\ ~IsRaised(nxt)
        THEN [chore EXCEPT !.due_date = nxt]
        ELSE chore

\* calculate_next_date raises in the handler
advance_raises(chore) ==
    /\ is_chore_scheduled(chore)
    /\ IsRaised(calculate_next_date(chore.schedule, chore.due_date))

\* from the user fetched to the handler's end: the assignment, the save,
\* then the due date
ReactApply(i) ==
    /\ LET ref == rx[i].chore
           c1 == assigned(held(ref), rx[i].next_assignee_id)
           c2 == advanced(c1)
           end == IF advance_raises(c1)
                  THEN Ended("raised", "ValueError: day is out of range")
                  ELSE Ended("done", "")
       IN  /\ rx[i].pc = "fetch_user"
           /\ UNCHANGED <<user_emojis, chore_channel_id, reminder_channel_id,
                          today>>
           /\ IF rx[i].next_assignee_id = None
              THEN \* client.fetch_user(None) raises
                   /\ rx' = [rx EXCEPT ![i] = Ended("raised", "HTTPException")]
                   /\ UNCHANGED <<chores, file, saves, ops>>
              ELSE /\ UNCHANGED ops
                   /\ saves' = saves + 1
                   /\ IF "idx" \in DOMAIN ref
                      THEN /\ chores' = [chores EXCEPT ![ref.idx] = c2]
                           /\ file' = Snapshot([chores EXCEPT ![ref.idx] = c1],
                                               chore_channel_id,
                                               reminder_channel_id, user_emojis)
                           /\ rx' = [rx EXCEPT ![i] = end]
                      ELSE /\ chores' = chores
                           /\ file' = Snapshot(chores, chore_channel_id,
                                               reminder_channel_id, user_emojis)
                           /\ rx' = [k \in 1..MaxInFlight |->
                                        IF k = i THEN end
                                        ELSE IF "det" \in DOMAIN rx[k].chore
                                                /\ rx[k].chore.det = ref.det
                                        THEN [rx[k] EXCEPT !.chore.obj = c2]
                                        ELSE rx[k]]
    /\ UNCHANGED aside

Next ==
    \/ setup_channel(Channel(1))
    \/ \E p \in SetEmojiInputs : set_emoji(p[1], p[2])
    \/ \E p \in AddInputs : add_chore(p[1], p[2], p[3], p[4], p[5])
    \/ \E t \in TitleInputs, p \in EditInputs :
           edit_chore(t, p[1], p[2], p[3], p[4])
    \/ \E t \in TitleInputs : delete_chore(t)
    \/ \E t \in TitleInputs, u \in Users : assign_chore(t, u)
    \/ \E i \in 1..MaxInFlight, p \in ReactionInputs :
           ReactStart(i, p[1], p[2], p[3], p[4])
    \/ \E i \in 1..MaxInFlight : ReactResolve(i)
    \/ \E i \in 1..MaxInFlight : ReactApply(i)

Spec == Init /\ [][Next]_vars

(***************************************************************************)
(* The methods of Schedule, called on their own.  A call starts with its   *)
(* arguments and no result; a step evaluates it.  The text to_string       *)
(* returns can be handed to from_string in turn.                           *)
(***************************************************************************)
Pending == [pending |-> TRUE]

Units == {"day", "days", "month", "months", "year", "years"}

\* what a user may type as a schedule: the fixed phrases, texts that are no
\* schedule, and every <N> <unit> for N from -1 up
ScheduleStrings ==
    {<<"daily">>, <<"weekly">>, <<"Weekly">>, <<"twice", "a", "week">>,
     <<"every", "other", "day">>, <<"twice", "a", "month">>, <<"monthly">>,
     <<"yearly">>, <<"fortnightly">>, <<"every", "two", "days">>,
     <<"every", "2">>, <<"every", "2", "weeks">>, <<"Every", "2", "Days">>}
    \cup {<<"every", ToString(n), u>> : n \in -1..MaxInterval, u \in Units}

Schedules ==
    {Schedule(ft, n) : ft \in {"DAILY", "DAYS", "WEEKLY", "MONTHLY", "YEARLY"},
                       n \in 1..MaxInterval}

\* first and last days of the months of a common year and of a leap year
CallDates ==
    {d \in [year : {2023, 2024}, month : 1..12, day : {1, 28, 29, 30, 31}] :
        d.day <= days_in_month(d.year, d.month)}

PendingCalls ==
    {[fn |-> "from_string", args |-> [schedule_str |-> t], result |-> Pending] :
        t \in ScheduleStrings}
    \cup {[fn |-> "calculate_next_date",
           args |-> [self |-> sc, from_date |-> d], result |-> Pending] :
             sc \in Schedules, d \in CallDates}

InitSchedule ==
    /\ Boot(<<>>, None, None, <<>>, StartDay, 9)
    /\ call \in PendingCalls

\* a method call touches nothing of the bot's state
OnlyCall ==
    UNCHANGED <<chores, user_emojis, chore_channel_id, reminder_channel_id,
                file, today, rx, saves, ops, hour, sched, sent>>

Schedule_from_string ==
    /\ call.fn = "from_string"
    /\ call.result = Pending
    /\ call' = [call EXCEPT !.result = from_string(call.args.schedule_str)]
    /\ OnlyCall

\* to_string of the schedule from_string returned
Schedule_to_string ==
    /\ call.fn = "from_string"
    /\ call.result # Pending
    /\ ~IsRaised(call.result)
    /\ call' = [fn |-> "to_string", args |-> [self |-> call.result],
                result |-> to_string(call.result)]
    /\ OnlyCall

\* the text to_string returned goes to from_string
Schedule_from_string_of_rendered ==
    /\ call.fn = "to_string"
    /\ call' = [fn |-> "from_string",
                args |-> [schedule_str |-> call.result,
                          rendered |-> call.args.self],
                result |-> Pending]
    /\ OnlyCall

Schedule_calculate_next_date ==
    /\ call.fn = "calculate_next_date"
    /\ call.result = Pending
    /\ call' = [call EXCEPT !.result =
                    calculate_next_date(call.args.self, call.args.from_date)]
    /\ OnlyCall

\* the rotation's call: calculate_next_date of a chore's schedule, which
\* from_string returned when the chore was added, on the chore's due date
Schedule_calculate_next_date_of_parsed ==
    /\ call.fn = "from_string"
    /\ "schedule_str" \in DOMAIN call.args
    /\ "rendered" \notin DOMAIN call.args
    /\ call.result # Pending
    /\ ~IsRaised(call.result)
    /\ \E due_date \in CallDates :
         call' = [fn |-> "calculate_next_date",
                  args |-> [self |-> call.result, from_date |-> due_date,
                            schedule_str |-> call.args.schedule_str],
                  result |-> Pending]
    /\ OnlyCall

NextSchedule ==
    \/ Schedule_from_string
    \/ Schedule_to_string
    \/ Schedule_from_string_of_rendered
    \/ Schedule_calculate_next_date
    \/ Schedule_calculate_next_date_of_parsed

SpecSchedule == InitSchedule /\ [][NextSchedule]_vars

(***************************************************************************)
(* schedule_reminders and send_reminder (src/main.py).  The task runs from *)
(* one await to the next without interruption: the steps between two       *)
(* awaits are separate actions here, and the commands wait for the task to *)
(* reach an await (AtAwait).  The clock has two hours a day, 9 and 12;     *)
(* the sleep ends as 12 strikes, and a scan is over before the day is.     *)
(* client.get_channel finds the reminder channel.                          *)
(***************************************************************************)
set_reminder_channel(channel_id) ==
    /\ reminder_channel_id' = channel_id
    /\ UNCHANGED <<chores, user_emojis, chore_channel_id, today, rx>>
    /\ Writes
    /\ save_to_file
    /\ UNCHANGED aside

\* reminder_date with no days of notice for any schedule
reminder_date_on_due_date(chore) ==
    IF chore.schedule = None THEN Raised("AttributeError")
    ELSE IF chore.due_date = None THEN Raised("TypeError")
    ELSE chore.due_date

\* reminder_date, lines 420-428
reminder_date(chore) ==
    IF chore.schedule = None THEN Raised("AttributeError")
    ELSE IF chore.due_date = None THEN Raised("TypeError")
    ELSE IF chore.schedule.frequency_type = "WEEKLY"
    THEN add_days(chore.due_date, -1)
    ELSE IF chore.schedule.frequency_type = "MONTHLY"
    THEN add_days(chore.due_date, -3)
    ELSE IF chore.schedule.frequency_type = "YEARLY"
    THEN add_days(chore.due_date, -7)
    ELSE chore.due_date

\* the message with no look at the due date and the schedule
reminder_message_blind(chore, reminder_type) ==
    [day |-> sched.today, type |-> reminder_type, title |-> chore.title]

\* reminder_message of send_reminder: strftime on the due date and to_string
\* on the schedule raise AttributeError when the field is None
reminder_message(chore, reminder_type) ==
    IF chore.due_date = None \/ chore.schedule = None
    THEN Raised("AttributeError")
    ELSE [day |-> sched.today, type |-> reminder_type, title |-> chore.title]

\* the task ended by an exception
Dead(exc) == [sched EXCEPT !.pc = "raised", !.exc = exc]

\* the task at a place of the scan
At(pc) == [sched EXCEPT !.pc = pc]

\* await send_reminder(chore, reminder_type), up to channel.send; otherwise
\* is where the scan goes on when send_reminder returns at once
send_reminder(reminder_type, otherwise) ==
    LET chore == held(sched.chore)
        m == reminder_message(chore, reminder_type)
    IN  IF reminder_channel_id = None
        THEN sched' = At(otherwise) /\ UNCHANGED sent
        ELSE IF IsRaised(m)
        THEN sched' = Dead(m.raised) /\ UNCHANGED sent
        ELSE /\ sched' = [sched EXCEPT !.pc = "send", !.type = reminder_type]
             /\ sent' = Append(sent, m)

\* the task is suspended, or over
AtAwait == sched.pc \in {"sleep", "send", "raised"}

OnlyTask ==
    UNCHANGED <<chores, user_emojis, chore_channel_id, reminder_channel_id,
                file, today, rx, saves, ops, hour, call>>

\* 12 strikes on the day the task sleeps until: asyncio.sleep returns, and
\* the task goes on to the scan, or with no reminder channel round the loop
Wake ==
    /\ hour = 9
    /\ sched.pc = "sleep"
    /\ sched.until = datetime(today, 12)
    /\ hour' = 12
    /\ sched' = IF reminder_channel_id = None
                THEN SleepingAgain(next_midday(datetime(today, 12)))
                ELSE [sched EXCEPT !.pc = "for", !.today = today, !.it = 0]
    /\ UNCHANGED <<chores, user_emojis, chore_channel_id, reminder_channel_id,
                   file, today, rx, saves, ops, sent, call>>

\* 12 strikes and no task sleeps until it
MiddayUnattended ==
    /\ hour = 9
    /\ ~(sched.pc = "sleep" /\ sched.until = datetime(today, 12))
    /\ hour' = 12
    /\ UNCHANGED <<chores, user_emojis, chore_channel_id, reminder_channel_id,
                   file, today, rx, saves, ops, sched, sent, call>>

\* the day ends
Midnight ==
    /\ hour = 12
    /\ sched.pc \in {"sleep", "raised"}
    /\ toordinal(today) - toordinal(ScanStartDay) < MaxDays
    /\ hour' = 9
    /\ today' = add_days(today, 1)
    /\ UNCHANGED <<chores, user_emojis, chore_channel_id, reminder_channel_id,
                   file, rx, saves, ops, sched, sent, call>>

\* for chore in chores: the next chore of the list, or the end of the scan
\* and the sleep of the next pass of the loop
ForNext ==
    /\ sched.pc = "for"
    /\ IF sched.it < Len(chores)
       THEN LET chore == chores[sched.it + 1]
                at == [sched EXCEPT !.it = sched.it + 1,
                                    !.chore = [idx |-> sched.it + 1]]
            IN  IF ~is_chore_scheduled(chore)
                THEN sched' = at
                ELSE IF IsRaised(reminder_date(chore))
                THEN sched' = [at EXCEPT !.pc = "raised",
                                         !.exc = reminder_date(chore).raised]
                ELSE sched' = [at EXCEPT !.pc = "upcoming",
                                         !.reminder_date = reminder_date(chore)]
       ELSE sched' = SleepingAgain(next_midday(datetime(today, hour)))
    /\ UNCHANGED sent
    /\ OnlyTask

\* if today == reminder_date
CheckUpcoming ==
    /\ sched.pc = "upcoming"
    /\ IF sched.today = sched.reminder_date
       THEN send_reminder("Upcoming", "due_today")
       ELSE sched' = At("due_today") /\ UNCHANGED sent
    /\ OnlyTask

\* if today == chore.due_date
CheckDueToday ==
    /\ sched.pc = "due_today"
    /\ IF sched.today = held(sched.chore).due_date
       THEN send_reminder("Due Today", "overdue")
       ELSE sched' = At("overdue") /\ UNCHANGED sent
    /\ OnlyTask

\* if chore.due_date < today: None < date raises TypeError
CheckOverdue ==
    /\ sched.pc = "overdue"
    /\ IF held(sched.chore).due_date = None
       THEN sched' = Dead("TypeError") /\ UNCHANGED sent
       ELSE IF date_lt(held(sched.chore).due_date, sched.today)
       THEN send_reminder("Overdue", "for")
       ELSE sched' = At("for") /\ UNCHANGED sent
    /\ OnlyTask

\* channel.send returns
SendReturns ==
    /\ sched.pc = "send"
    /\ sched' = At(CASE sched.type = "Upcoming"  -> "due_today"
                     [] sched.type = "Due Today" -> "overdue"
                     [] sched.type = "Overdue"   -> "for")
    /\ UNCHANGED sent
    /\ OnlyTask

\* channel.send raises (discord.HTTPException, discord.Forbidden): nothing
\* in send_reminder or schedule_reminders catches it
SendRaises ==
    /\ sched.pc = "send"
    /\ sched' = Dead("HTTPException")
    /\ UNCHANGED sent
    /\ OnlyTask

\* the data.json files the bot starts the scans from
Registries ==
    LET A == User("A")
        W == Schedule("WEEKLY", 1)
    IN  {<<Chore("Dishes", W, A, date(2025, 1, 6))>>,
         <<Chore("Bins", None, A, date(2025, 1, 3)),
           Chore("Dishes", W, A, date(2025, 1, 4))>>,
         <<Chore("Bins", Schedule("DAYS", 2), A, date(2025, 1, 5)),
           Chore("Dishes", Schedule("MONTHLY", 1), A, date(2025, 1, 8))>>,
         <<Chore("Bins", Schedule("YEARLY", 1), A, date(2025, 1, 12)),
           Chore("Dishes", Schedule("DAILY", 1), A, date(2025, 1, 6))>>,
         <<Chore("Bins", W, A, None),
           Chore("Dishes", W, A, date(2025, 1, 4))>>}

\* /edit_chore while the task is suspended
ScanEditInputs ==
    {<<"", NoneText, None, NoText>>,
     <<"", NoText, None, NoneText>>,
     <<"", Jan04, None, NoText>>}

InitReminders ==
    /\ \E cs \in Registries, rc \in {None, Channel(3)}, h \in {9, 12} :
           Boot(cs, Channel(1), rc, <<[uid |-> "A", emoji |-> "green"]>>,
                ScanStartDay, h)
    /\ call = NoCall

NextReminders ==
    \/ Wake
    \/ MiddayUnattended
    \/ Midnight
    \/ ForNext
    \/ CheckUpcoming
    \/ CheckDueToday
    \/ CheckOverdue
    \/ SendReturns
    \/ SendRaises
    \/ AtAwait /\ ops < MaxScanOps /\ set_reminder_channel(Channel(3))
    \/ /\ AtAwait /\ ops < MaxScanOps
       /\ \E t \in TitleInputs, p \in ScanEditInputs :
              edit_chore(t, p[1], p[2], p[3], p[4])
    \/ /\ AtAwait /\ ops < MaxScanOps
       /\ \E t \in TitleInputs : delete_chore(t)

SpecReminders == InitReminders /\ [][NextReminders]_vars

(***************************************************************************)
(* Properties of the rotation handler.                                     *)
(***************************************************************************)
\* the datastore and data.json are as they were, and nothing was saved
DatastoreUnchanged ==
    UNCHANGED <<chores, user_emojis, chore_channel_id, reminder_channel_id,
                file, saves>>

\* handler i runs from the user fetched to its end
Applies(i) == rx[i].pc = "fetch_user" /\ rx'[i].pc # "fetch_user"

\* handler i runs from the message fetched to its next await or its end
Resolves(i) == rx[i].pc = "fetch_message" /\ rx'[i].pc # "fetch_message"

Weekly1 == Schedule("WEEKLY", 1)

ymd(y, m, d) == [year |-> y, month |-> m, day |-> d]

\* C1: with a roster of exactly two participants, a completed acknowledgement
\* by the assignee of a scheduled chore hands the chore to the other
\* participant and moves the due date to the schedule's next date, whoever
\* of the two acknowledges; for Weekly(1) the due date goes from 2025-01-06
\* to 2025-01-13 and from 2025-01-13 to 2025-01-20.
C1_TwoMemberRotationAlternates ==
    [][\A i \in 1..MaxInFlight :
         (/\ Applies(i)
          /\ rx'[i].pc = "done"
          /\ "idx" \in DOMAIN rx[i].chore
          /\ Len(user_emojis) = 2
          /\ is_chore_scheduled(chores[rx[i].chore.idx])
          /\ chores[rx[i].chore.idx].assignee = User(rx[i].user_id))
         => LET old == chores[rx[i].chore.idx]
                new == chores'[rx[i].chore.idx]
            IN  /\ new.assignee # old.assignee
                /\ \E k \in 1..2 : new.assignee = User(user_emojis[k].uid)
                /\ new.due_date = calculate_next_date(old.schedule, old.due_date)
                /\ (old.schedule = Weekly1 /\ old.due_date = ymd(2025, 1, 6))
                   => new.due_date = ymd(2025, 1, 13)
                /\ (old.schedule = Weekly1 /\ old.due_date = ymd(2025, 1, 13))
                   => new.due_date = ymd(2025, 1, 20)
                /\ new.title = old.title /\ new.schedule = old.schedule
      ]_vars

\* C1: A's acknowledgement has handed the weekly chore of 2025-01-06 to B
\* with the due date 2025-01-13, and B's acknowledgement is validated and
\* about to be applied
C1_SecondAckInFlight ==
    /\ Len(user_emojis) = 2
    /\ chores = <<Chore("Dishes", Weekly1, User("B"), ymd(2025, 1, 13))>>
    /\ rx[1].pc = "fetch_user"
    /\ rx[1].user_id = "B"
    /\ rx[1].next_assignee_id = User("A")
    /\ ops = 6

\* C2: an acknowledgement by a roster member who is not the chore's assignee
\* changes neither the assignee nor the due date of the chore.
C2_OnlyAssigneeRotates ==
    [][\A i \in 1..MaxInFlight :
         (/\ Applies(i)
          /\ "idx" \in DOMAIN rx[i].chore
          /\ has_emoji(rx[i].user_id, user_emojis)
          /\ chores[rx[i].chore.idx].assignee # User(rx[i].user_id))
         => /\ chores'[rx[i].chore.idx].assignee
                 = chores[rx[i].chore.idx].assignee
            /\ chores'[rx[i].chore.idx].due_date
                 = chores[rx[i].chore.idx].due_date
      ]_vars

\* C3: a reaction in the chore channel from a user who is not in the roster,
\* or with an emoji that is not the one the roster holds for the user, ends
\* the handler at once: chores, roster, channels and data.json are
\* unchanged, nothing is saved and nothing is raised.
C3_InvalidAckIsSilentNoOp ==
    [][\A i \in 1..MaxInFlight, p \in ReactionInputs :
         (/\ rx'[i] # rx[i]
          /\ ~valid_reaction(user_emojis, p[2], p[3])
          /\ ReactStart(i, p[1], p[2], p[3], p[4]))
         => /\ DatastoreUnchanged
            /\ rx'[i].pc \in {"invalid_reaction", "not_chore_channel"}
            /\ rx'[i].exc = ""
      ]_vars

\* C3: a handler has returned at the check of user and emoji while the
\* registry holds a scheduled chore and the roster a participant
C3_InvalidAckReturned ==
    /\ rx[1].pc = "invalid_reaction"
    /\ user_emojis # <<>>
    /\ \E k \in 1..Len(chores) : is_chore_scheduled(chores[k])

\* C4: a validated acknowledgement whose title matches no chore raises
\* ValueError out of the handler and leaves chores, roster, channels and
\* data.json unchanged.
C4_UnknownTitleRaises ==
    [][\A i \in 1..MaxInFlight :
         (/\ Resolves(i)
          /\ \A k \in 1..Len(chores) : lower(chores[k].title) # lower(rx[i].title))
         => /\ rx'[i].pc = "raised"
            /\ rx'[i].exc = "ValueError: chore not found"
            /\ DatastoreUnchanged
      ]_vars

\* C4: a handler has raised for a title the registry, which is not empty,
\* does not hold
C4_RaisedForUnknownTitle ==
    /\ rx[1].pc = "raised"
    /\ rx[1].exc = "ValueError: chore not found"
    /\ chores # <<>>
    /\ file = Snapshot(chores, chore_channel_id, reminder_channel_id,
                       user_emojis)

(***************************************************************************)
(* Properties of the registry commands.                                    *)
(***************************************************************************)
\* C5: no two chores of the registry have titles that are equal without
\* regard to case.
C5_TitlesUnique ==
    \A i, j \in 1..Len(chores) :
        i # j => lower(chores[i].title) # lower(chores[j].title)

\* C6: /add_chore with a title that a chore of the registry already has,
\* without regard to case, leaves chores and data.json unchanged and saves
\* nothing: every /add_chore that changes the datastore or saves found no
\* chore of its title, and appends exactly one chore, of that title. So of
\* two adds of one title, in either order, only the first appends.
C6_DuplicateAddRejected ==
    [][~DatastoreUnchanged
       => \A p \in AddInputs :
              add_chore(p[1], p[2], p[3], p[4], p[5])
              => /\ \A k \in 1..Len(chores) :
                       lower(chores[k].title) # lower(p[2])
                 /\ Len(chores') = Len(chores) + 1
                 /\ chores'[Len(chores')].title = p[2]
                 /\ \A k \in 1..Len(chores) : chores'[k] = chores[k]
      ]_vars

\* C6: the registry holds a chore, and an /add_chore of the same title in
\* another case, run in the chore channel, is answered as a duplicate; the
\* state is the one before and after that command
C6_DuplicateAddAnswered ==
    \E p \in AddInputs, k \in 1..Len(chores) :
        /\ add_chore_result(p[1], p[2], p[3], p[4], p[5]) = "duplicate"
        /\ chores[k].title # p[2]
        /\ lower(chores[k].title) = lower(p[2])
        /\ has_emoji(p[3], user_emojis)

\* C7: no chore of the registry holds a schedule without a due date.
C7_ScheduleImpliesDueDate ==
    \A k \in 1..Len(chores) :
        chores[k].schedule # None => chores[k].due_date # None

\* C8: /edit_chore with new_due_date "None", of a chore that has a due date,
\* leaves the chore with neither a due date nor a schedule, whatever the
\* other arguments are.
C8_ClearingDueDateClearsSchedule ==
    [][\A t \in TitleInputs, p \in EditInputs :
         (/\ p[2] = NoneText
          /\ find_chore_by_title(chores, t) # 0
          /\ chores[find_chore_by_title(chores, t)].due_date # None
          /\ edit_chore(t, p[1], p[2], p[3], p[4]))
         => /\ chores'[find_chore_by_title(chores, t)].due_date = None
            /\ chores'[find_chore_by_title(chores, t)].schedule = None
      ]_vars

\* C9: an /add_chore, /edit_chore or /assign_chore that answers with a
\* validation error leaves every chore of the registry as it was.
C9_AbortedCommandMutatesNothing ==
    [][/\ \A p \in AddInputs :
            (/\ add_chore(p[1], p[2], p[3], p[4], p[5])
             /\ add_chore_result(p[1], p[2], p[3], p[4], p[5])
                    \in {"duplicate", "no_emoji", "bad_schedule", "bad_date",
                         "past_date"})
            => chores' = chores
       /\ \A t \in TitleInputs, p \in EditInputs :
            (/\ find_chore_by_title(chores, t) # 0
             /\ edit_chore(t, p[1], p[2], p[3], p[4])
             /\ edit_chore_run(chores[find_chore_by_title(chores, t)],
                               p[1], p[2], p[3], p[4]).res # "ok")
            => chores' = chores
       /\ \A t \in TitleInputs, u \in Users :
            (assign_chore(t, u) /\ ~has_emoji(u, user_emojis))
            => chores' = chores
      ]_vars

\* C10: a rotation of a scheduled chore that completes has made exactly one
\* save, and data.json then holds the registry as it is in memory, with the
\* new assignee and the advanced due date.
C10_RotationSavedAfterMutation ==
    [][\A i \in 1..MaxInFlight :
         (/\ Applies(i)
          /\ rx'[i].pc = "done"
          /\ "idx" \in DOMAIN rx[i].chore
          /\ is_chore_scheduled(chores[rx[i].chore.idx]))
         => /\ saves' = saves + 1
            /\ file' = Snapshot(chores', chore_channel_id',
                                reminder_channel_id', user_emojis')
      ]_vars

(***************************************************************************)
(* Properties of delete_chore.                                             *)
(***************************************************************************)
\* C20: delete_chore with a title that matches no chore only answers that the
\* chore was not found: the registry and data.json stay as they were and
\* nothing is saved.  With a match it removes exactly the first chore whose
\* title matches, the other chores keep their fields and their order, and one
\* save writes the registry that is left.
C20_DeleteRemovesFirstMatch ==
    [][\A t \in TitleInputs :
         delete_chore(t) =>
           LET m == {j \in 1..Len(chores) : lower(chores[j].title) = lower(t)}
           IN  IF m = {}
               THEN DatastoreUnchanged
               ELSE \E i \in m :
                      /\ \A j \in m : i <= j
                      /\ chores' = SubSeq(chores, 1, i - 1)
                                      \o SubSeq(chores, i + 1, Len(chores))
                      /\ saves' = saves + 1
                      /\ file' = Snapshot(chores', chore_channel_id,
                                          reminder_channel_id, user_emojis)
                      /\ UNCHANGED <<user_emojis, chore_channel_id,
                                     reminder_channel_id>>
      ]_vars

\* the first of two chores was deleted while a reaction handler held it: the
\* handler keeps the removed chore, the registry keeps the other one
C20_FirstOfTwoDeleted ==
    /\ Len(chores) = 1
    /\ chores[1].title = "Bins"
    /\ \E i \in 1..MaxInFlight :
         /\ "det" \in DOMAIN rx[i].chore
         /\ rx[i].chore.obj.title = "Dishes"
    /\ file = Snapshot(chores, chore_channel_id, reminder_channel_id,
                       user_emojis)

C18_ParsedIntervalPositive ==
    (/\ call.fn = "from_string"
     /\ call.result # Pending
     /\ ~IsRaised(call.result))
    => call.result.interval >= 1

\* C19: the text to_string gives for a schedule that from_string returned is
\* accepted by from_string, and parses to that same schedule.
C19_RenderedScheduleParsesBack ==
    (/\ call.fn = "from_string"
     /\ "rendered" \in DOMAIN call.args
     /\ call.result # Pending)
    => call.result = call.args.rendered

\* every 5 month parsed, rendered as every 5 months, and parsed again
C19_RenderedTextParsed ==
    /\ call.fn = "from_string"
    /\ call.args = [schedule_str |-> <<"every", "5", "months">>,
                    rendered |-> Schedule("MONTHLY", 5)]
    /\ call.result = Schedule("MONTHLY", 5)

(***************************************************************************)
(* Properties of the reminder task.                                        *)
(***************************************************************************)
\* days of notice of a schedule
lead_days(schedule) ==
    CASE schedule.frequency_type = "WEEKLY"  -> 1
      [] schedule.frequency_type = "MONTHLY" -> 3
      [] schedule.frequency_type = "YEARLY"  -> 7
      [] OTHER                               -> 0

\* how many reminders of a type were sent for a title on a day
Emitted(title, type, day) ==
    Cardinality({i \in 1..Len(sent) :
                   sent[i] = [day |-> day, type |-> type, title |-> title]})

\* today's scan has run to its end
ScanOver == sched.pc = "sleep" /\ sched.today = today

\* no command has written to the datastore since the bot started
Untouched == ops = 0

C12_EmissionOnlyForScheduled ==
    [][sent' # sent =>
         /\ sent' = Append(sent, sent'[Len(sent')])
         /\ sent'[Len(sent')].title = held(sched.chore).title
         /\ is_chore_scheduled(held(sched.chore))
         /\ \A k \in 1..Len(chores) :
              ~is_chore_scheduled(chores[k])
              => chores[k].title # sent'[Len(sent')].title
      ]_vars

\* a scan has passed over Bins, which has no schedule and was due before
\* today, and has sent the Overdue reminder of the chore after it
C12_UnscheduledPassedOver ==
    /\ ScanOver
    /\ Len(chores) = 2
    /\ chores[1].title = "Bins"
    /\ chores[1].schedule = None
    /\ chores[1].due_date # None
    /\ date_lt(chores[1].due_date, today)
    /\ sent = <<[day |-> today, type |-> "Overdue", title |-> "Dishes"]>>

\* C13: when channel.send fails for one chore the scan goes on: the task is
\* not ended by the exception.
C13_SendFailureDoesNotStopScan ==
    [][(sched.pc = "send" /\ sched'.exc = "HTTPException")
       => sched'.pc \in {"due_today", "overdue", "for"}]_vars

\* C14: the reminder task never terminates: no exception leaves it.
C14_TaskNeverTerminates == sched.pc # "raised"

\* C15: the task sleeps until the earliest 12:00 after the start of the pass:
\* today's while the clock is before midday, tomorrow's after.
C15_SleepsUntilNextMidday ==
    sched.pc = "sleep"
    => sched.until = datetime(IF hour < 12 THEN today ELSE add_days(today, 1),
                              12)

\* C16: with the reminder channel set and no command run, a scheduled chore
\* that got an Overdue reminder yesterday has got one today once midday is
\* past and no scan is under way.
C16_OverdueEveryDay ==
    (/\ Untouched
     /\ reminder_channel_id # None
     /\ hour = 12
     /\ sched.pc \in {"sleep", "raised"})
    => \A k \in 1..Len(chores) :
         (/\ is_chore_scheduled(chores[k])
          /\ Emitted(chores[k].title, "Overdue", add_days(today, -1)) > 0)
         => Emitted(chores[k].title, "Overdue", today) > 0

(***************************************************************************)
(* Properties of the rotation handler, continued.                          *)
(***************************************************************************)
\* C21: a rotation that completes gives the chore to the first participant
\* of the roster, in the order the participants were entered, other than the
\* one who acknowledged: a roster member, never the acknowledger, whoever
\* held the chore before.
C21_NextIsFirstOtherInRoster ==
    [][\A i \in 1..MaxInFlight :
         (/\ Applies(i)
          /\ rx'[i].pc = "done"
          /\ "idx" \in DOMAIN rx[i].chore)
         => LET others == {k \in 1..Len(user_emojis) :
                             user_emojis[k].uid # rx[i].user_id}
                new    == chores'[rx[i].chore.idx].assignee
            IN  /\ others # {}
                /\ \E k \in others :
                     /\ \A j \in others : k <= j
                     /\ new = User(user_emojis[k].uid)
                /\ new # User(rx[i].user_id)
                /\ has_emoji(new.id, user_emojis)
      ]_vars

\* with A, B and C in the roster an acknowledgement by B or C of the weekly
\* chore has completed: the chore is A's, due a week later
C21_RotatedAmongThree ==
    /\ Len(user_emojis) = 3
    /\ user_emojis[1].uid = "A"
    /\ \E i \in 1..MaxInFlight : rx[i].pc = "done"
    /\ chores = <<Chore("Dishes", Weekly1, User("A"), ymd(2025, 1, 13))>>

\* C22: the run of the handler from the user fetched to its end changes, of
\* the registry, the roster and the channels, nothing but the assignee of the
\* chore acknowledged and, when that chore has a schedule and a due date, its
\* due date: its title and schedule, the other chores, their order, the
\* roster and the channels stay as they were, and so does the due date of a
\* chore that is not scheduled.
C22_RotationFrame ==
    [][\A i \in 1..MaxInFlight :
         Applies(i) =>
           /\ UNCHANGED <<user_emojis, chore_channel_id, reminder_channel_id>>
           /\ Len(chores') = Len(chores)
           /\ \A k \in 1..Len(chores) :
                IF "idx" \in DOMAIN rx[i].chore /\ rx[i].chore.idx = k
                THEN /\ chores'[k].title = chores[k].title
                     /\ chores'[k].schedule = chores[k].schedule
                     /\ ~is_chore_scheduled(chores[k])
                        => chores'[k].due_date = chores[k].due_date
                ELSE chores'[k] = chores[k]
      ]_vars

\* an acknowledgement of Dishes, which has a due date and no schedule, has
\* completed: B has the chore and the due date is the one it had
C22_UnscheduledRotated ==
    /\ \E i \in 1..MaxInFlight : rx[i].pc = "done"
    /\ chores = <<Chore("Dishes", None, User("B"), ymd(2025, 1, 6))>>

(***************************************************************************)
(* Properties of the handlers run together.                                *)
(***************************************************************************)
\* C23: no command runs between the evaluation of two chores of a scan, so
\* no step taken while a scan is under way moves a chore that is still to be
\* evaluated, and stays in the registry, out of the scan's reach.
C23_NoChoreSkipped ==
    [][sched.pc = "send" =>
         \A k \in (sched.it + 1)..Len(chores) :
           (\E j \in 1..Len(chores') : chores'[j] = chores[k])
           => \E j \in (sched'.it + 1)..Len(chores') : chores'[j] = chores[k]
      ]_vars

\* C24: when the handler writes the new assignee and due date, the chore it
\* writes to is a member of the registry and the roster still gives the
\* acknowledging participant the emoji of the reaction.
C24_RotationActsOnCurrentState ==
    [][\A i \in 1..MaxInFlight :
         (Applies(i) /\ rx[i].next_assignee_id # None)
         => /\ "idx" \in DOMAIN rx[i].chore
            /\ valid_reaction(user_emojis, rx[i].user_id, rx[i].emoji)
      ]_vars

\* C25: every chore's assignee, when there is one, has an entry in the
\* roster.
C25_AssigneeInRoster ==
    \A k \in 1..Len(chores) :
      chores[k].assignee # None
      => has_emoji(chores[k].assignee.id, user_emojis)

\* two chores with assignees, one of them handed on by a completed rotation
C25_TwoAssignedOneRotated ==
    /\ Len(chores) = 2
    /\ \A k \in 1..2 : chores[k].assignee # None
    /\ \E i \in 1..MaxInFlight : rx[i].pc = "done"
    /\ \E k \in 1..2 : chores[k].due_date = ymd(2025, 1, 13)

\* C26: a rotation whose next due date does not exist (InvalidDate) leaves
\* the registry and the persisted snapshot as they were before it: the
\* assignee is not reassigned and saved while the due date stays behind.
C26_FailedRotationChangesNothing ==
    [][\A i \in 1..MaxInFlight :
         (/\ Applies(i)
          /\ rx'[i].exc = "ValueError: day is out of range")
         => /\ chores' = chores
            /\ file' = file ]_vars

\* C27: whatever schedule from_string returned for a chore, the due date a
\* rotation computes with it is strictly later than the due date it had.
C27_RotationAdvancesDueDate ==
    (/\ call.fn = "calculate_next_date"
     /\ "schedule_str" \in DOMAIN call.args
     /\ call.result # Pending
     /\ ~IsRaised(call.result))
    => date_lt(call.args.from_date, call.result)

====
